---- MODULE Spec2Model ----
(***************************************************************************)
(* The six programs of the repository, each a standalone script:          *)
(*   Simulador_descargas_concurrentes.py  (programa = "descargas")         *)
(*   Hospital.py                          (programa = "hospital")          *)
(*   Corredores.py                        (programa = "corredores")        *)
(*   Calculo_intensivo_(Multiprocessing).py     (programa = "calculo")     *)
(*   Simulador_descargas_Hilos_(threading).py   (programa = "hilos")       *)
(*   Simulador_API_(Asyncio).py                 (programa = "api")         *)
(* A thread is a pair <<kind, index>>; a lock is the thread that holds it  *)
(* (Nadie when free).  A `with lock:` block is an acquire step, the steps  *)
(* of its body, and a release in the last step of the body; a body whose   *)
(* print raises leaves through LiberaAlFallar.                             *)
(***************************************************************************)
EXTENDS Integers, Sequences, FiniteSets, TLC

\* ------------------------------------------------------------- bounds
NumArchivos == 3         \* entries of ARCHIVOS that are downloaded (6 in the source)
MaxWorkers == 2          \* threads of the pool (max_workers=3 in the source)
Pasos == 1               \* progress steps of one download (pasos = 20 in the source)
MaxFallos == 1           \* prints that raise in one mode, or in one run of a script
NumMedicos == 2          \* entries of MEDICOS that work the shift (4 in the source)
PACIENTES_POR_MEDICO == 2    \* 3 in the source
NumCorredores == 3       \* entries of CORREDORES that run (5 in the source)
DISTANCIA == 2           \* steps to the finish line (10 in the source)

ARCHIVOS == <<850, 420, 310, 180, 45, 220>>   \* tamaño_mb of each entry

Tareas == 1..NumArchivos
Workers == 1..NumArchivos        \* identities a pool thread can have
MEDICOS == 1..NumMedicos
CORREDORES == 1..NumCorredores

Nadie == <<"nadie", 0>>
Main == <<"main", 0>>
Hilo(i) == <<"hilo", i>>
Worker(w) == <<"worker", w>>
Medico(m) == <<"medico", m>>
Director == <<"director", 0>>
Corredor(c) == <<"corredor", c>>

VARIABLES
  programa,        \* which script runs
  nfallos,         \* prints that raised so far
  sinGuarda,       \* <<resource, line>> of every mutation made without holding its lock
  \* --- Simulador_descargas_concurrentes.py
  pcMain,          \* line main (or the mode it called) is at
  idx,             \* loop index of the mode's for loop (1-based)
  modo,            \* "ninguno", "sec", "threads", "pool"
  pc,              \* per task: line of descargar_archivo / tarea it is at
  paso,            \* per task: loop variable paso
  tmp,             \* per task: value read by the += in progress
  estadisticas,    \* [total_mb, archivos_completados]
  print_lock, stats_lock, resultados_lock,
  resultados,      \* list of results, each the index of its task
  fallado,         \* tasks of this mode whose call raised
  cola,            \* executor work queue
  wtarea,          \* per pool thread: task it runs, 0 when idle
  westado,         \* per pool thread: "no_creado", "vivo", "terminado"
  terminados,      \* finished futures not yet yielded, in the order they finished
  instantanea,     \* those of them as_completed found finished when it was called
  entregados,      \* futures as_completed has yielded
  futActual,       \* future bound to the loop variable `future`
  apagado,         \* executor shut down
  retornados,      \* tasks whose call returned and whose result is not yet in
                   \* resultados, in the order they returned
  \* --- Hospital.py
  pcMainH,         \* line main is at
  idxH,            \* index of main's loop over hilos_medicos
  apertura_hospital,   \* the Event's flag
  lock_hospital,   \* `lock` of Hospital.py
  registro,        \* list of <<doctor, patient>>
  pcDir,           \* line the director thread is at
  pcMed,           \* per doctor: line of atender_pacientes it is at
  iMed,            \* per doctor: loop variable i
  totalImpreso,    \* len(registro) as the last print of lines 85-86 showed it
  \* --- Corredores.py
  pcMainC,         \* line main is at
  idxC,            \* index of main's loop over hilos
  lock_corredores, \* `lock` of Corredores.py
  llegadas,        \* list of runners
  pcCor,           \* per runner: line of correr it is at
  pasoCor,         \* per runner: loop variable paso
  posicion,        \* per runner: local variable posicion
  enMeta,          \* runners past their last step and not yet in llegadas, in the
                   \* order they took it
  \* --- Calculo_intensivo_(Multiprocessing).py
  pcMainP,         \* line the main process is at
  idxP,            \* index of main's loops over the processes
  pcProc,          \* per process: line of calcular it is at
  \* --- Simulador_descargas_Hilos_(threading).py
  pcMainS,         \* line the main thread is at
  idxS,            \* index of main's loops over hilos
  pcHilo,          \* per thread: line of descargar_archivo it is at
  \* --- Simulador_API_(Asyncio).py
  pcMainA,         \* line the coroutine main is at
  pcCoro,          \* per coroutine: line of consultar_api it is at
  tiempo           \* per coroutine: local variable tiempo

varsD == <<pcMain, idx, modo, pc, paso, tmp, estadisticas, print_lock, stats_lock,
           resultados_lock, resultados, fallado, cola, wtarea, westado, terminados,
           instantanea, entregados, futActual, apagado, retornados>>

varsH == <<pcMainH, idxH, apertura_hospital, lock_hospital, registro, pcDir, pcMed,
           iMed, totalImpreso>>

varsC == <<pcMainC, idxC, lock_corredores, llegadas, pcCor, pasoCor, posicion, enMeta>>

varsP == <<pcMainP, idxP, pcProc>>

varsS == <<pcMainS, idxS, pcHilo>>

varsA == <<pcMainA, pcCoro, tiempo>>

\* the three scripts that share nothing between their workers
varsO == <<varsP, varsS, varsA>>

vars == <<programa, nfallos, sinGuarda, varsD, varsH, varsC, varsO>>

\* what the download simulator never touches
Otros == <<programa, varsH, varsC, varsO>>

\* ------------------------------------------------------------ helpers
RECURSIVE SumaTam(_)
SumaTam(S) ==
  IF S = {} THEN 0
  ELSE LET t == CHOOSE x \in S : TRUE IN ARCHIVOS[t] + SumaTam(S \ {t})

RECURSIVE SumaSeq(_)
SumaSeq(s) == IF s = <<>> THEN 0 ELSE ARCHIVOS[Head(s)] + SumaSeq(Tail(s))

Rango(s) == {s[i] : i \in 1..Len(s)}

\* s without its element t
Quitar(s, t) == SelectSeq(s, LAMBDA x : x # t)

\* `with lock:` leaving because its body raised: __exit__ releases the lock
NoLiberaAlFallar(lock) == lock
LiberaAlFallar(lock) == Nadie

\* the mutation of a shared object at `linea` by thread h, whose guard is `lock`
Registrar(recurso, linea, lock, h) ==
  IF lock = h THEN sinGuarda ELSE sinGuarda \cup {<<recurso, linea>>}

PuedeFallar == nfallos < MaxFallos

\* ------------------------------------------------ descargar_archivo
\* a call that raised: before (lines 70, 83) or after (line 99) its update of the
\* statistics
Excepciones == {"exc_antes", "exc_despues"}

\* the thread that runs task t: main itself, the task's own thread, a pool thread
Ejecutor(t) ==
  CASE modo = "sec" -> Main
    [] modo = "threads" -> Hilo(t)
    [] modo = "pool" -> Worker(CHOOSE w \in Workers : wtarea[w] = t)
    [] OTHER -> Nadie

PoolVars == <<cola, wtarea, westado, terminados, instantanea, entregados, futActual,
              apagado>>

\* what a step of descargar_archivo leaves alone besides the named variables
SoloTarea == UNCHANGED <<Otros, retornados, pcMain, idx, modo,
                         resultados_lock, resultados, PoolVars>>

\* a print inside `with print_lock:` raises: the block is left through __exit__
FallaPrint(t, linea, destino) ==
  /\ pc[t] = linea
  /\ PuedeFallar
  /\ pc' = [pc EXCEPT ![t] = destino]
  /\ print_lock' = LiberaAlFallar(print_lock)
  /\ fallado' = fallado \cup {t}
  /\ nfallos' = nfallos + 1
  /\ paso' = [paso EXCEPT ![t] = 0]
  /\ SoloTarea
  /\ UNCHANGED <<sinGuarda, tmp, estadisticas, stats_lock>>

\* with print_lock: (line 68)
descargar_archivo_L68(t) ==
  /\ pc[t] = "L68"
  /\ print_lock = Nadie
  /\ print_lock' = Ejecutor(t)
  /\ pc' = [pc EXCEPT ![t] = "L70"]
  /\ SoloTarea
  /\ UNCHANGED <<nfallos, sinGuarda, paso, tmp, estadisticas, stats_lock, fallado>>

\* print "Iniciando" and go on to the loop with print_lock still held
descargar_archivo_L70_sin_liberar(t) ==
  /\ pc[t] = "L70"
  /\ pc' = [pc EXCEPT ![t] = IF Pasos >= 1 THEN "L75" ELSE "L93"]
  /\ paso' = [paso EXCEPT ![t] = IF Pasos >= 1 THEN 1 ELSE 0]
  /\ SoloTarea
  /\ UNCHANGED <<nfallos, sinGuarda, tmp, estadisticas, stats_lock, print_lock, fallado>>

\* print "Iniciando", leave the block; for paso in range(1, pasos + 1)
descargar_archivo_L70(t) ==
  /\ pc[t] = "L70"
  /\ print_lock' = Nadie
  /\ pc' = [pc EXCEPT ![t] = IF Pasos >= 1 THEN "L75" ELSE "L93"]
  /\ paso' = [paso EXCEPT ![t] = IF Pasos >= 1 THEN 1 ELSE 0]
  /\ SoloTarea
  /\ UNCHANGED <<nfallos, sinGuarda, tmp, estadisticas, stats_lock, fallado>>

descargar_archivo_L70_raise(t) == FallaPrint(t, "L70", "exc_antes")

\* time.sleep(duracion / pasos); with print_lock: (line 81)
descargar_archivo_L75(t) ==
  /\ pc[t] = "L75"
  /\ print_lock = Nadie
  /\ print_lock' = Ejecutor(t)
  /\ pc' = [pc EXCEPT ![t] = "L83"]
  /\ SoloTarea
  /\ UNCHANGED <<nfallos, sinGuarda, paso, tmp, estadisticas, stats_lock, fallado>>

\* the last print of the progress bar does not leave its block: the update of
\* the statistics is nested in `with print_lock:`
descargar_archivo_L83_anidado(t) ==
  /\ pc[t] = "L83"
  /\ IF paso[t] < Pasos
       THEN /\ paso' = [paso EXCEPT ![t] = paso[t] + 1]
            /\ pc' = [pc EXCEPT ![t] = "L75"]
            /\ print_lock' = Nadie
       ELSE /\ paso' = [paso EXCEPT ![t] = 0]
            /\ pc' = [pc EXCEPT ![t] = "L93"]
            /\ UNCHANGED print_lock
  /\ SoloTarea
  /\ UNCHANGED <<nfallos, sinGuarda, tmp, estadisticas, stats_lock, fallado>>

\* print the progress bar, leave the block, next paso (paso is dead after the loop)
descargar_archivo_L83(t) ==
  /\ pc[t] = "L83"
  /\ print_lock' = Nadie
  /\ IF paso[t] < Pasos
       THEN /\ paso' = [paso EXCEPT ![t] = paso[t] + 1]
            /\ pc' = [pc EXCEPT ![t] = "L75"]
       ELSE /\ paso' = [paso EXCEPT ![t] = 0]
            /\ pc' = [pc EXCEPT ![t] = "L93"]
  /\ SoloTarea
  /\ UNCHANGED <<nfallos, sinGuarda, tmp, estadisticas, stats_lock, fallado>>

descargar_archivo_L83_raise(t) == FallaPrint(t, "L83", "exc_antes")

\* with stats_lock: entered without taking the lock
descargar_archivo_L93_sin_lock(t) ==
  /\ pc[t] = "L93"
  /\ pc' = [pc EXCEPT ![t] = "L94r"]
  /\ SoloTarea
  /\ UNCHANGED <<nfallos, sinGuarda, paso, tmp, estadisticas, stats_lock, print_lock,
                 fallado>>

\* with stats_lock: (line 93)
descargar_archivo_L93(t) ==
  /\ pc[t] = "L93"
  /\ stats_lock = Nadie
  /\ stats_lock' = Ejecutor(t)
  /\ pc' = [pc EXCEPT ![t] = "L94r"]
  /\ SoloTarea
  /\ UNCHANGED <<nfallos, sinGuarda, paso, tmp, estadisticas, print_lock, fallado>>

\* estadisticas["total_mb"] += tamaño : the read
descargar_archivo_L94r(t) ==
  /\ pc[t] = "L94r"
  /\ tmp' = [tmp EXCEPT ![t] = estadisticas.total_mb]
  /\ pc' = [pc EXCEPT ![t] = "L94w"]
  /\ SoloTarea
  /\ UNCHANGED <<nfallos, sinGuarda, paso, estadisticas, stats_lock, print_lock, fallado>>

\* the write of total_mb, with the block of stats_lock ending after it
descargar_archivo_L94w_libera(t) ==
  /\ pc[t] = "L94w"
  /\ estadisticas' = [estadisticas EXCEPT !.total_mb = tmp[t] + ARCHIVOS[t]]
  /\ sinGuarda' = Registrar("estadisticas", "L94", stats_lock, Ejecutor(t))
  /\ stats_lock' = Nadie
  /\ pc' = [pc EXCEPT ![t] = "L95r"]
  /\ tmp' = [tmp EXCEPT ![t] = 0]
  /\ SoloTarea
  /\ UNCHANGED <<nfallos, paso, print_lock, fallado>>

\* estadisticas["total_mb"] += tamaño : the write
descargar_archivo_L94w(t) ==
  /\ pc[t] = "L94w"
  /\ estadisticas' = [estadisticas EXCEPT !.total_mb = tmp[t] + ARCHIVOS[t]]
  /\ sinGuarda' = Registrar("estadisticas", "L94", stats_lock, Ejecutor(t))
  /\ pc' = [pc EXCEPT ![t] = "L95r"]
  /\ tmp' = [tmp EXCEPT ![t] = 0]
  /\ SoloTarea
  /\ UNCHANGED <<nfallos, paso, stats_lock, print_lock, fallado>>

\* estadisticas["archivos_completados"] += 1 : the read
descargar_archivo_L95r(t) ==
  /\ pc[t] = "L95r"
  /\ tmp' = [tmp EXCEPT ![t] = estadisticas.archivos_completados]
  /\ pc' = [pc EXCEPT ![t] = "L95w"]
  /\ SoloTarea
  /\ UNCHANGED <<nfallos, sinGuarda, paso, estadisticas, stats_lock, print_lock, fallado>>

\* estadisticas["archivos_completados"] += 1 : the write; leave the block
descargar_archivo_L95w(t) ==
  /\ pc[t] = "L95w"
  /\ estadisticas' = [estadisticas EXCEPT !.archivos_completados = tmp[t] + 1]
  /\ sinGuarda' = Registrar("estadisticas", "L95", stats_lock, Ejecutor(t))
  /\ stats_lock' = IF stats_lock = Ejecutor(t) THEN Nadie ELSE stats_lock
  /\ pc' = [pc EXCEPT ![t] = "L97"]
  /\ tmp' = [tmp EXCEPT ![t] = 0]
  /\ SoloTarea
  /\ UNCHANGED <<nfallos, paso, print_lock, fallado>>

\* with print_lock: (line 97)
descargar_archivo_L97(t) ==
  /\ pc[t] = "L97"
  /\ print_lock = Nadie
  /\ print_lock' = Ejecutor(t)
  /\ pc' = [pc EXCEPT ![t] = "L99"]
  /\ SoloTarea
  /\ UNCHANGED <<nfallos, sinGuarda, paso, tmp, estadisticas, stats_lock, fallado>>

\* print "100%", leave the block, return the result record (line 105)
descargar_archivo_L99(t) ==
  /\ pc[t] = "L99"
  /\ print_lock' = Nadie
  /\ pc' = [pc EXCEPT ![t] = "L105"]
  /\ retornados' = Append(retornados, t)
  /\ UNCHANGED <<Otros, pcMain, idx, modo, resultados_lock, resultados,
                 PoolVars>>
  /\ UNCHANGED <<nfallos, sinGuarda, paso, tmp, estadisticas, stats_lock, fallado>>

descargar_archivo_L99_raise(t) == FallaPrint(t, "L99", "exc_despues")

descargar_archivo(t) ==
  \/ descargar_archivo_L68(t)
  \/ descargar_archivo_L70(t)
  \/ descargar_archivo_L70_raise(t)
  \/ descargar_archivo_L75(t)
  \/ descargar_archivo_L83(t)
  \/ descargar_archivo_L83_raise(t)
  \/ descargar_archivo_L93(t)
  \/ descargar_archivo_L94r(t)
  \/ descargar_archivo_L94w(t)
  \/ descargar_archivo_L95r(t)
  \/ descargar_archivo_L95w(t)
  \/ descargar_archivo_L97(t)
  \/ descargar_archivo_L99(t)
  \/ descargar_archivo_L99_raise(t)

\* ------------------------------------------------------ the three modes
Nuevas == [t \in Tareas |-> "nueva"]
Ceros == [t \in Tareas |-> 0]

TareaVars == <<pc, paso, tmp, fallado>>
Locks == <<print_lock, stats_lock, resultados_lock>>

\* a mode that opens without the reset of total_mb: the counter goes on from the
\* mode before
ResetTotalAcumula(linea, sig, m) ==
  /\ pcMain = linea
  /\ modo' = m
  /\ pcMain' = sig
  /\ UNCHANGED <<Otros, retornados, nfallos, sinGuarda, idx, TareaVars, estadisticas, Locks,
                 resultados, PoolVars>>

\* estadisticas["total_mb"] = 0 : the first statement of a mode (lines 133, 156, 198)
ResetTotal(linea, sig, m) ==
  /\ pcMain = linea
  /\ estadisticas' = [estadisticas EXCEPT !.total_mb = 0]
  /\ sinGuarda' = Registrar("estadisticas", linea, stats_lock, Main)
  /\ modo' = m
  /\ pcMain' = sig
  /\ UNCHANGED <<Otros, retornados, nfallos, idx, TareaVars, Locks, resultados, PoolVars>>

\* estadisticas["archivos_completados"] = 0 ; resultados = [] : the calls of the
\* mode are new calls (lines 134-135, 157-159, 199)
ResetCompletados(linea, sig) ==
  /\ pcMain = linea
  /\ estadisticas' = [estadisticas EXCEPT !.archivos_completados = 0]
  /\ sinGuarda' = Registrar("estadisticas", linea, stats_lock, Main)
  /\ resultados' = <<>>
  /\ resultados_lock' = Nadie
  /\ pc' = Nuevas
  /\ fallado' = {}
  /\ nfallos' = 0
  /\ idx' = 1
  /\ retornados' = <<>>
  /\ pcMain' = sig
  /\ UNCHANGED <<Otros, modo, paso, tmp, print_lock, stats_lock, PoolVars>>

modo_secuencial_L133 == ResetTotal("L133", "L134", "sec")
modo_secuencial_L134 == ResetCompletados("L134", "L138")

UltimoIndiceCorto == NumArchivos - 1
UltimoIndice == NumArchivos

\* for i, archivo in enumerate(ARCHIVOS): res = descargar_archivo(archivo, i)
modo_secuencial_L138 ==
  /\ pcMain = "L138"
  /\ IF idx <= UltimoIndice
       THEN /\ pc' = [pc EXCEPT ![idx] = "L68"]
            /\ pcMain' = "L139"
       ELSE /\ pcMain' = "L143"
            /\ UNCHANGED pc
  /\ UNCHANGED <<Otros, retornados, nfallos, sinGuarda, idx, modo, paso, tmp, fallado,
                 estadisticas, Locks, resultados, PoolVars>>

\* the call returned: resultados.append(res)
modo_secuencial_L140 ==
  /\ pcMain = "L139"
  /\ pc[idx] = "L105"
  /\ resultados' = Append(resultados, idx)
  /\ sinGuarda' = Registrar("resultados", "L140", Nadie, Main)
  /\ pc' = [pc EXCEPT ![idx] = "fin"]
  /\ idx' = idx + 1
  /\ retornados' = Quitar(retornados, idx)
  /\ pcMain' = "L138"
  /\ UNCHANGED <<Otros, nfallos, modo, paso, tmp, fallado, estadisticas, Locks,
                 PoolVars>>

\* the call raised: nothing catches it, the program ends with a traceback
modo_secuencial_L139_raise ==
  /\ pcMain = "L139"
  /\ pc[idx] \in Excepciones
  /\ pcMain' = "abortado"
  /\ UNCHANGED <<Otros, retornados, nfallos, sinGuarda, idx, modo, TareaVars, estadisticas,
                 Locks, resultados, PoolVars>>

\* _mostrar_resumen(...) ; return ; main goes on to the next mode
Resumen(linea, sig) ==
  /\ pcMain = linea
  /\ pcMain' = sig
  /\ UNCHANGED <<Otros, retornados, nfallos, sinGuarda, idx, modo, TareaVars, estadisticas,
                 Locks, resultados, PoolVars>>

modo_secuencial_L143 == Resumen("L143", "L156")

modo_threads_L156 == ResetTotal("L156", "L157", "threads")
modo_threads_L157 == ResetCompletados("L157", "L170")

\* for i, archivo in enumerate(ARCHIVOS): hilo.start()
modo_threads_L170 ==
  /\ pcMain = "L170"
  /\ IF idx <= NumArchivos
       THEN /\ pc' = [pc EXCEPT ![idx] = "L68"]
            /\ idx' = idx + 1
            /\ UNCHANGED pcMain
       ELSE /\ pcMain' = "L181"
            /\ idx' = 1
            /\ UNCHANGED pc
  /\ UNCHANGED <<Otros, retornados, nfallos, sinGuarda, modo, paso, tmp, fallado, estadisticas,
                 Locks, resultados, PoolVars>>

\* tarea: with resultados_lock: (line 163)
tarea_L163(t) ==
  /\ modo = "threads"
  /\ pc[t] = "L105"
  /\ resultados_lock = Nadie
  /\ resultados_lock' = Hilo(t)
  /\ pc' = [pc EXCEPT ![t] = "L164"]
  /\ UNCHANGED <<Otros, retornados, nfallos, sinGuarda, pcMain, idx, modo, paso, tmp, fallado,
                 estadisticas, print_lock, stats_lock, resultados, PoolVars>>

\* tarea: resultados.append(res), leave the block, the thread ends
tarea_L164(t) ==
  /\ pc[t] = "L164"
  /\ resultados' = Append(resultados, t)
  /\ sinGuarda' = Registrar("resultados", "L164", resultados_lock, Hilo(t))
  /\ resultados_lock' = Nadie
  /\ pc' = [pc EXCEPT ![t] = "fin"]
  /\ retornados' = Quitar(retornados, t)
  /\ UNCHANGED <<Otros, nfallos, pcMain, idx, modo, paso, tmp, fallado,
                 estadisticas, print_lock, stats_lock, PoolVars>>

\* a thread of modo_threads has ended: tarea returned, or its call raised
JoinSinEsperar(t) == TRUE
HiloTerminado(t) == pc[t] \in {"fin"} \cup Excepciones

\* for hilo in hilos: hilo.join()
modo_threads_L181 ==
  /\ pcMain = "L181"
  /\ IF idx <= NumArchivos
       THEN /\ HiloTerminado(idx)
            /\ idx' = idx + 1
            /\ UNCHANGED pcMain
       ELSE /\ pcMain' = "L185"
            /\ UNCHANGED idx
  /\ UNCHANGED <<Otros, retornados, nfallos, sinGuarda, modo, TareaVars, estadisticas, Locks,
                 resultados, PoolVars>>

modo_threads_L185 == Resumen("L185", "L198")

modo_pool_L198 == ResetTotal("L198", "L199", "pool")
modo_pool_L199 == ResetCompletados("L199", "L206")

NumWorkers == Cardinality({w \in Workers : westado[w] # "no_creado"})

\* submit starts a pool thread while fewer than max_workers exist
PuedeCrearWorkerSiempre == TRUE
PuedeCrearWorker == NumWorkers < MaxWorkers

\* executor.submit(descargar_archivo, archivo, i) for each entry; then the first
\* next() of as_completed(futures) notes the futures that are already finished
modo_pool_L206 ==
  /\ pcMain = "L206"
  /\ IF idx <= NumArchivos
       THEN /\ cola' = Append(cola, idx)
            /\ westado' = IF PuedeCrearWorker
                            THEN [westado EXCEPT ![NumWorkers + 1] = "vivo"]
                            ELSE westado
            /\ idx' = idx + 1
            /\ UNCHANGED <<pcMain, instantanea>>
       ELSE /\ instantanea' = Rango(terminados)
            /\ pcMain' = "L211"
            /\ UNCHANGED <<cola, westado, idx>>
  /\ UNCHANGED <<Otros, retornados, nfallos, sinGuarda, modo, TareaVars, estadisticas, Locks,
                 resultados, wtarea, terminados, entregados, futActual, apagado>>

\* a pool thread reads the next work item and leaves it in the queue
worker_toma_sin_quitar(w) ==
  /\ westado[w] = "vivo"
  /\ wtarea[w] = 0
  /\ cola # <<>>
  /\ wtarea' = [wtarea EXCEPT ![w] = Head(cola)]
  /\ pc' = [pc EXCEPT ![Head(cola)] = "L68"]
  /\ UNCHANGED <<Otros, retornados, nfallos, sinGuarda, pcMain, idx, modo, paso, tmp, fallado,
                 estadisticas, Locks, resultados, cola, westado, terminados, instantanea,
                 entregados, futActual, apagado>>

\* a pool thread takes the next work item of the queue and calls descargar_archivo
\* (pool threads are interchangeable: the idle one of least index stands for
\* whichever of them gets the item)
worker_toma(w) ==
  /\ westado[w] = "vivo"
  /\ wtarea[w] = 0
  /\ \A v \in Workers : (westado[v] = "vivo" /\ wtarea[v] = 0) => w <= v
  /\ cola # <<>>
  /\ wtarea' = [wtarea EXCEPT ![w] = Head(cola)]
  /\ cola' = Tail(cola)
  /\ pc' = [pc EXCEPT ![Head(cola)] = "L68"]
  /\ UNCHANGED <<Otros, retornados, nfallos, sinGuarda, pcMain, idx, modo, paso, tmp, fallado,
                 estadisticas, Locks, resultados, westado, terminados, instantanea,
                 entregados, futActual, apagado>>

\* the call returned or raised: the pool thread stores it in the future
worker_termina(w) ==
  /\ wtarea[w] # 0
  /\ pc[wtarea[w]] \in {"L105"} \cup Excepciones
  /\ terminados' = Append(terminados, wtarea[w])
  /\ wtarea' = [wtarea EXCEPT ![w] = 0]
  /\ UNCHANGED <<Otros, retornados, nfallos, sinGuarda, pcMain, idx, modo, TareaVars,
                 estadisticas, Locks, resultados, cola, westado, instantanea,
                 entregados, futActual, apagado>>

\* an idle pool thread of a shut down executor with an empty queue ends
worker_sale(w) ==
  /\ westado[w] = "vivo"
  /\ wtarea[w] = 0
  /\ cola = <<>>
  /\ apagado
  /\ westado' = [westado EXCEPT ![w] = "terminado"]
  /\ UNCHANGED <<Otros, retornados, nfallos, sinGuarda, pcMain, idx, modo, TareaVars,
                 estadisticas, Locks, resultados, cola, wtarea, terminados,
                 instantanea, entregados, futActual, apagado>>

\* as_completed yielding any future not yet yielded, finished or not
SiguientesSinEsperar == Tareas \ entregados

\* the futures as_completed may yield next: those finished when it was called, in
\* any order; then the others in the order they finish
Siguientes ==
  IF instantanea # {} THEN instantanea
  ELSE IF terminados # <<>> THEN {Head(terminados)}
  ELSE {}

\* for future in concurrent.futures.as_completed(futures): try: future.result()
\* returns the record of the call, or raises its exception: except Exception as e
modo_pool_L211 ==
  /\ pcMain = "L211"
  /\ IF entregados = Tareas
       THEN /\ pcMain' = "L204"
            /\ UNCHANGED futActual
       ELSE \E t \in Siguientes :
              /\ futActual' = t
              /\ pcMain' = IF t \in fallado THEN "L217" ELSE "L213"
  /\ UNCHANGED <<Otros, retornados, nfallos, sinGuarda, idx, modo, TareaVars, estadisticas,
                 Locks, resultados, cola, wtarea, westado, terminados, instantanea,
                 entregados, apagado>>

\* the loop body is done with `future`: as_completed has one future less to yield
Entregar ==
  /\ entregados' = entregados \cup {futActual}
  /\ instantanea' = instantanea \ {futActual}
  /\ terminados' = Quitar(terminados, futActual)
  /\ futActual' = 0

\* the call returned: resultado is its record ; resultados.append(resultado)
modo_pool_L214 ==
  /\ pcMain = "L213"
  /\ futActual \notin fallado
  /\ resultados' = Append(resultados, futActual)
  /\ sinGuarda' = Registrar("resultados", "L214", Nadie, Main)
  /\ Entregar
  /\ retornados' = Quitar(retornados, futActual)
  /\ pcMain' = "L211"
  /\ UNCHANGED <<Otros, nfallos, idx, modo, TareaVars, estadisticas, Locks, cola,
                 wtarea, westado, apagado>>

\* nothing catches what future.result() raised: the exception leaves modo_pool
modo_pool_L217_propaga ==
  /\ pcMain = "L217"
  /\ pcMain' = "abortado"
  /\ UNCHANGED <<Otros, retornados, nfallos, sinGuarda, idx, modo, TareaVars, estadisticas,
                 Locks, resultados, PoolVars>>

\* print "Error descargando ..." ; the loop body is done
modo_pool_L217 ==
  /\ pcMain = "L217"
  /\ Entregar
  /\ pcMain' = "L211"
  /\ UNCHANGED <<Otros, retornados, nfallos, sinGuarda, idx, modo, TareaVars, estadisticas,
                 Locks, resultados, cola, wtarea, westado, apagado>>

\* leaving `with ... as executor:` : shutdown(wait=True)
modo_pool_L204 ==
  /\ pcMain = "L204"
  /\ apagado' = TRUE
  /\ pcMain' = "L204w"
  /\ UNCHANGED <<Otros, retornados, nfallos, sinGuarda, idx, modo, TareaVars, estadisticas,
                 Locks, resultados, cola, wtarea, westado, terminados, instantanea,
                 entregados, futActual>>

\* shutdown joins every pool thread
modo_pool_L204w ==
  /\ pcMain = "L204w"
  /\ \A w \in Workers : westado[w] # "vivo"
  /\ pcMain' = "L220"
  /\ UNCHANGED <<Otros, retornados, nfallos, sinGuarda, idx, modo, TareaVars, estadisticas,
                 Locks, resultados, PoolVars>>

modo_pool_L220 == Resumen("L220", "L300")

\* mostrar_comparacion(t_seq, t_threads, t_pool)
main_L300 == Resumen("L300", "fin")

InitD ==
  /\ pcMain = IF programa = "descargas" THEN "L133" ELSE "inactivo"
  /\ idx = 1
  /\ modo = "ninguno"
  /\ pc = Nuevas
  /\ paso = Ceros
  /\ tmp = Ceros
  /\ estadisticas = [total_mb |-> 0, archivos_completados |-> 0]
  /\ print_lock = Nadie
  /\ stats_lock = Nadie
  /\ resultados_lock = Nadie
  /\ resultados = <<>>
  /\ fallado = {}
  /\ cola = <<>>
  /\ wtarea = [w \in Workers |-> 0]
  /\ westado = [w \in Workers |-> "no_creado"]
  /\ terminados = <<>>
  /\ instantanea = {}
  /\ entregados = {}
  /\ futActual = 0
  /\ apagado = FALSE
  /\ retornados = <<>>

\* the steps of the main thread
main_descargas ==
  \/ modo_secuencial_L133
  \/ modo_secuencial_L134
  \/ modo_secuencial_L138
  \/ modo_secuencial_L140
  \/ modo_secuencial_L139_raise
  \/ modo_secuencial_L143
  \/ modo_threads_L156
  \/ modo_threads_L157
  \/ modo_threads_L170
  \/ modo_threads_L181
  \/ modo_threads_L185
  \/ modo_pool_L198
  \/ modo_pool_L199
  \/ modo_pool_L206
  \/ modo_pool_L211
  \/ modo_pool_L214
  \/ modo_pool_L217
  \/ modo_pool_L204
  \/ modo_pool_L204w
  \/ modo_pool_L220
  \/ main_L300

\* the steps of the thread (modo_threads) or of the call (the other modes) of task t
tarea(t) == descargar_archivo(t) \/ tarea_L163(t) \/ tarea_L164(t)

\* the steps of a pool thread
worker(w) == worker_toma(w) \/ worker_termina(w) \/ worker_sale(w)

NextD ==
  \/ main_descargas
  \/ \E t \in Tareas : tarea(t)
  \/ \E w \in Workers : worker(w)


\* ---------------------------------------------------------- Hospital.py
SoloHospital == UNCHANGED <<programa, varsD, varsC, varsO>>

\* main: for hilo in hilos_medicos: hilo.start()   (lines 117-118)
main_hospital_L117 ==
  /\ pcMainH = "L117"
  /\ IF idxH <= NumMedicos
       THEN /\ pcMed' = [pcMed EXCEPT ![idxH] = "L67"]
            /\ idxH' = idxH + 1
            /\ UNCHANGED pcMainH
       ELSE /\ pcMainH' = "L123"
            /\ idxH' = 1
            /\ UNCHANGED pcMed
  /\ SoloHospital
  /\ UNCHANGED <<totalImpreso, nfallos, sinGuarda, apertura_hospital, lock_hospital, registro, pcDir,
                 iMed>>

\* main: time.sleep(0.3) ; hilo_director.start()
main_hospital_L123 ==
  /\ pcMainH = "L123"
  /\ pcDir' = "L48"
  /\ pcMainH' = "L126"
  /\ SoloHospital
  /\ UNCHANGED <<totalImpreso, nfallos, sinGuarda, idxH, apertura_hospital, lock_hospital, registro,
                 pcMed, iMed>>

MedicoTerminado(m) == pcMed[m] \in {"fin", "exc_L85"}

\* main: hilo_director.join()
main_hospital_L126 ==
  /\ pcMainH = "L126"
  /\ pcDir = "fin"
  /\ pcMainH' = "L127"
  /\ SoloHospital
  /\ UNCHANGED <<totalImpreso, nfallos, sinGuarda, idxH, apertura_hospital, lock_hospital, registro,
                 pcDir, pcMed, iMed>>

\* main: for hilo in hilos_medicos: hilo.join()
main_hospital_L127 ==
  /\ pcMainH = "L127"
  /\ IF idxH <= NumMedicos
       THEN /\ MedicoTerminado(idxH)
            /\ idxH' = idxH + 1
            /\ UNCHANGED pcMainH
       ELSE /\ pcMainH' = "L131"
            /\ UNCHANGED idxH
  /\ SoloHospital
  /\ UNCHANGED <<totalImpreso, nfallos, sinGuarda, apertura_hospital, lock_hospital, registro, pcDir,
                 pcMed, iMed>>

\* main: print the summary of the shift (lines 131-141)
main_hospital_L131 ==
  /\ pcMainH = "L131"
  /\ pcMainH' = "fin"
  /\ SoloHospital
  /\ UNCHANGED <<totalImpreso, nfallos, sinGuarda, idxH, apertura_hospital, lock_hospital, registro,
                 pcDir, pcMed, iMed>>

\* director: print "revisando", time.sleep(2)
director_L48 ==
  /\ pcDir = "L48"
  /\ pcDir' = "L51"
  /\ SoloHospital
  /\ UNCHANGED <<totalImpreso, nfallos, sinGuarda, pcMainH, idxH, apertura_hospital, lock_hospital,
                 registro, pcMed, iMed>>

\* director: print "HOSPITAL ABIERTO"
director_L51 ==
  /\ pcDir = "L51"
  /\ pcDir' = "L54"
  /\ SoloHospital
  /\ UNCHANGED <<totalImpreso, nfallos, sinGuarda, pcMainH, idxH, apertura_hospital, lock_hospital,
                 registro, pcMed, iMed>>

\* a notification that wakes the doctors waiting now and sets no flag
director_L54_notifica ==
  /\ pcDir = "L54"
  /\ pcMed' = [m \in MEDICOS |-> IF pcMed[m] = "L72" THEN "L75" ELSE pcMed[m]]
  /\ pcDir' = "fin"
  /\ SoloHospital
  /\ UNCHANGED <<totalImpreso, nfallos, sinGuarda, pcMainH, idxH, apertura_hospital, lock_hospital,
                 registro, iMed>>

\* director: apertura_hospital.set()
director_L54 ==
  /\ pcDir = "L54"
  /\ apertura_hospital' = TRUE
  /\ pcDir' = "fin"
  /\ SoloHospital
  /\ UNCHANGED <<totalImpreso, nfallos, sinGuarda, pcMainH, idxH, lock_hospital, registro, pcMed,
                 iMed>>

\* atender_pacientes: print "esperando apertura..."
atender_pacientes_L67(m) ==
  /\ pcMed[m] = "L67"
  /\ pcMed' = [pcMed EXCEPT ![m] = "L72"]
  /\ SoloHospital
  /\ UNCHANGED <<totalImpreso, nfallos, sinGuarda, pcMainH, idxH, apertura_hospital, lock_hospital,
                 registro, pcDir, iMed>>

\* a wait that returns with the gate closed
atender_pacientes_L72_sin_esperar(m) ==
  /\ pcMed[m] = "L72"
  /\ pcMed' = [pcMed EXCEPT ![m] = "L75"]
  /\ SoloHospital
  /\ UNCHANGED <<totalImpreso, nfallos, sinGuarda, pcMainH, idxH, apertura_hospital, lock_hospital,
                 registro, pcDir, iMed>>

\* a wait on an auto-reset event: the first doctor through closes the gate again
atender_pacientes_L72_auto_reset(m) ==
  /\ pcMed[m] = "L72"
  /\ apertura_hospital
  /\ apertura_hospital' = FALSE
  /\ pcMed' = [pcMed EXCEPT ![m] = "L75"]
  /\ SoloHospital
  /\ UNCHANGED <<totalImpreso, nfallos, sinGuarda, pcMainH, idxH, lock_hospital, registro, pcDir,
                 iMed>>

\* atender_pacientes: apertura_hospital.wait() returns once the flag is set
atender_pacientes_L72(m) ==
  /\ pcMed[m] = "L72"
  /\ apertura_hospital
  /\ pcMed' = [pcMed EXCEPT ![m] = "L75"]
  /\ SoloHospital
  /\ UNCHANGED <<totalImpreso, nfallos, sinGuarda, pcMainH, idxH, apertura_hospital, lock_hospital,
                 registro, pcDir, iMed>>

\* atender_pacientes: print "recibí la señal" ; for i in range(1, PACIENTES_POR_MEDICO + 1)
atender_pacientes_L75(m) ==
  /\ pcMed[m] = "L75"
  /\ pcMed' = [pcMed EXCEPT ![m] = IF PACIENTES_POR_MEDICO >= 1 THEN "L79" ELSE "L89"]
  /\ iMed' = [iMed EXCEPT ![m] = IF PACIENTES_POR_MEDICO >= 1 THEN 1 ELSE 0]
  /\ SoloHospital
  /\ UNCHANGED <<totalImpreso, nfallos, sinGuarda, pcMainH, idxH, apertura_hospital, lock_hospital,
                 registro, pcDir>>

\* with lock: entered without taking the lock
atender_pacientes_L83_sin_lock(m) ==
  /\ pcMed[m] = "L79"
  /\ pcMed' = [pcMed EXCEPT ![m] = "L84"]
  /\ SoloHospital
  /\ UNCHANGED <<totalImpreso, nfallos, sinGuarda, pcMainH, idxH, apertura_hospital, registro,
                 pcDir, iMed, lock_hospital>>

\* atender_pacientes: time.sleep(duracion) ; with lock: (line 83)
atender_pacientes_L83(m) ==
  /\ pcMed[m] = "L79"
  /\ lock_hospital = Nadie
  /\ lock_hospital' = Medico(m)
  /\ pcMed' = [pcMed EXCEPT ![m] = "L84"]
  /\ SoloHospital
  /\ UNCHANGED <<totalImpreso, nfallos, sinGuarda, pcMainH, idxH, apertura_hospital, registro, pcDir,
                 iMed>>

\* atender_pacientes: registro.append(f"{nombre} → Paciente {i}")
atender_pacientes_L84(m) ==
  /\ pcMed[m] = "L84"
  /\ registro' = Append(registro, <<m, iMed[m]>>)
  /\ sinGuarda' = Registrar("registro", "L84", lock_hospital, Medico(m))
  /\ pcMed' = [pcMed EXCEPT ![m] = "L85"]
  /\ SoloHospital
  /\ UNCHANGED <<totalImpreso, nfallos, pcMainH, idxH, apertura_hospital, lock_hospital, pcDir, iMed>>

\* atender_pacientes: print "Total atendidos hoy", leave the block, next patient
atender_pacientes_L85(m) ==
  /\ pcMed[m] = "L85"
  /\ lock_hospital' = Nadie
  /\ IF iMed[m] < PACIENTES_POR_MEDICO
       THEN /\ iMed' = [iMed EXCEPT ![m] = iMed[m] + 1]
            /\ pcMed' = [pcMed EXCEPT ![m] = "L79"]
       ELSE /\ iMed' = [iMed EXCEPT ![m] = 0]
            /\ pcMed' = [pcMed EXCEPT ![m] = "L89"]
  /\ totalImpreso' = Len(registro)
  /\ SoloHospital
  /\ UNCHANGED <<nfallos, sinGuarda, pcMainH, idxH, apertura_hospital, registro, pcDir>>

\* the print inside `with lock:` raises: the block is left through __exit__ and
\* the doctor's thread ends
atender_pacientes_L85_raise(m) ==
  /\ pcMed[m] = "L85"
  /\ PuedeFallar
  /\ nfallos' = nfallos + 1
  /\ lock_hospital' = LiberaAlFallar(lock_hospital)
  /\ iMed' = [iMed EXCEPT ![m] = 0]
  /\ pcMed' = [pcMed EXCEPT ![m] = "exc_L85"]
  /\ SoloHospital
  /\ UNCHANGED <<totalImpreso, sinGuarda, pcMainH, idxH, apertura_hospital, registro, pcDir>>

\* atender_pacientes: print "turno completado"
atender_pacientes_L89(m) ==
  /\ pcMed[m] = "L89"
  /\ pcMed' = [pcMed EXCEPT ![m] = "fin"]
  /\ SoloHospital
  /\ UNCHANGED <<totalImpreso, nfallos, sinGuarda, pcMainH, idxH, apertura_hospital, lock_hospital,
                 registro, pcDir, iMed>>

atender_pacientes(m) ==
  \/ atender_pacientes_L67(m)
  \/ atender_pacientes_L72(m)
  \/ atender_pacientes_L75(m)
  \/ atender_pacientes_L83(m)
  \/ atender_pacientes_L84(m)
  \/ atender_pacientes_L85(m)
  \/ atender_pacientes_L85_raise(m)
  \/ atender_pacientes_L89(m)

director ==
  \/ director_L48
  \/ director_L51
  \/ director_L54

main_hospital ==
  \/ main_hospital_L117
  \/ main_hospital_L123
  \/ main_hospital_L126
  \/ main_hospital_L127
  \/ main_hospital_L131

InitH ==
  /\ pcMainH = IF programa = "hospital" THEN "L117" ELSE "inactivo"
  /\ idxH = 1
  /\ apertura_hospital = FALSE
  /\ lock_hospital = Nadie
  /\ registro = <<>>
  /\ pcDir = "nuevo"
  /\ pcMed = [m \in MEDICOS |-> "nuevo"]
  /\ iMed = [m \in MEDICOS |-> 0]
  /\ totalImpreso = 0

NextH ==
  \/ main_hospital
  \/ director
  \/ \E m \in MEDICOS : atender_pacientes(m)

\* -------------------------------------------------------- Corredores.py
SoloCorredores == UNCHANGED <<programa, varsD, varsH, varsO>>

\* main: for hilo in hilos: hilo.start()   (lines 70-71)
main_corredores_L70 ==
  /\ pcMainC = "L70"
  /\ IF idxC <= NumCorredores
       THEN /\ pcCor' = [pcCor EXCEPT ![idxC] = IF DISTANCIA >= 1 THEN "L35" ELSE "L42"]
            /\ pasoCor' = [pasoCor EXCEPT ![idxC] = IF DISTANCIA >= 1 THEN 1 ELSE 0]
            /\ enMeta' = IF DISTANCIA >= 1 THEN enMeta ELSE Append(enMeta, idxC)
            /\ idxC' = idxC + 1
            /\ UNCHANGED pcMainC
       ELSE /\ pcMainC' = "L75"
            /\ idxC' = 1
            /\ UNCHANGED <<pcCor, pasoCor, enMeta>>
  /\ SoloCorredores
  /\ UNCHANGED <<nfallos, sinGuarda, lock_corredores, llegadas, posicion>>

CorredorTerminado(c) == pcCor[c] \in {"fin", "exc_L45"}

\* main: for hilo in hilos: hilo.join()
main_corredores_L75 ==
  /\ pcMainC = "L75"
  /\ IF idxC <= NumCorredores
       THEN /\ CorredorTerminado(idxC)
            /\ idxC' = idxC + 1
            /\ UNCHANGED pcMainC
       ELSE /\ pcMainC' = "L80"
            /\ UNCHANGED idxC
  /\ SoloCorredores
  /\ UNCHANGED <<nfallos, sinGuarda, lock_corredores, llegadas, pcCor, pasoCor,
                 posicion, enMeta>>

\* main: print the final results (lines 79-90)
main_corredores_L80 ==
  /\ pcMainC = "L80"
  /\ pcMainC' = "fin"
  /\ SoloCorredores
  /\ UNCHANGED <<nfallos, sinGuarda, idxC, lock_corredores, llegadas, pcCor, pasoCor,
                 posicion, enMeta>>

\* correr: time.sleep(random.uniform(0.1, 0.4)) ends
correr_L35(c) ==
  /\ pcCor[c] = "L35"
  /\ pcCor' = [pcCor EXCEPT ![c] = "L36"]
  /\ SoloCorredores
  /\ UNCHANGED <<nfallos, sinGuarda, pcMainC, idxC, lock_corredores, llegadas, pasoCor,
                 posicion, enMeta>>

\* the loop written as range(1, DISTANCIA): the last step is never taken
correr_L36_corto(c) ==
  /\ pcCor[c] = "L36"
  /\ IF pasoCor[c] < DISTANCIA - 1
       THEN /\ pasoCor' = [pasoCor EXCEPT ![c] = pasoCor[c] + 1]
            /\ pcCor' = [pcCor EXCEPT ![c] = "L35"]
            /\ UNCHANGED enMeta
       ELSE /\ pasoCor' = [pasoCor EXCEPT ![c] = 0]
            /\ pcCor' = [pcCor EXCEPT ![c] = "L42"]
            /\ enMeta' = Append(enMeta, c)
  /\ SoloCorredores
  /\ UNCHANGED <<nfallos, sinGuarda, pcMainC, idxC, lock_corredores, llegadas, posicion>>

\* correr: print "paso n/DISTANCIA" ; next paso (paso is dead after the loop)
correr_L36(c) ==
  /\ pcCor[c] = "L36"
  /\ IF pasoCor[c] < DISTANCIA
       THEN /\ pasoCor' = [pasoCor EXCEPT ![c] = pasoCor[c] + 1]
            /\ pcCor' = [pcCor EXCEPT ![c] = "L35"]
            /\ UNCHANGED enMeta
       ELSE /\ pasoCor' = [pasoCor EXCEPT ![c] = 0]
            /\ pcCor' = [pcCor EXCEPT ![c] = "L42"]
            /\ enMeta' = Append(enMeta, c)
  /\ SoloCorredores
  /\ UNCHANGED <<nfallos, sinGuarda, pcMainC, idxC, lock_corredores, llegadas, posicion>>

\* with lock: entered without taking the lock
correr_L42_sin_lock(c) ==
  /\ pcCor[c] = "L42"
  /\ pcCor' = [pcCor EXCEPT ![c] = "L43"]
  /\ SoloCorredores
  /\ UNCHANGED <<nfallos, sinGuarda, pcMainC, idxC, lock_corredores, llegadas, pasoCor,
                 posicion, enMeta>>

\* correr: with lock: (line 42)
correr_L42(c) ==
  /\ pcCor[c] = "L42"
  /\ lock_corredores = Nadie
  /\ lock_corredores' = Corredor(c)
  /\ pcCor' = [pcCor EXCEPT ![c] = "L43"]
  /\ SoloCorredores
  /\ UNCHANGED <<nfallos, sinGuarda, pcMainC, idxC, llegadas, pasoCor, posicion, enMeta>>

\* correr: posicion = len(llegadas) + 1
correr_L43(c) ==
  /\ pcCor[c] = "L43"
  /\ posicion' = [posicion EXCEPT ![c] = Len(llegadas) + 1]
  /\ pcCor' = [pcCor EXCEPT ![c] = "L44"]
  /\ SoloCorredores
  /\ UNCHANGED <<nfallos, sinGuarda, pcMainC, idxC, lock_corredores, llegadas, pasoCor,
                 enMeta>>

\* correr: llegadas.append(nombre)
correr_L44(c) ==
  /\ pcCor[c] = "L44"
  /\ llegadas' = Append(llegadas, c)
  /\ sinGuarda' = Registrar("llegadas", "L44", lock_corredores, Corredor(c))
  /\ pcCor' = [pcCor EXCEPT ![c] = "L45"]
  /\ enMeta' = Quitar(enMeta, c)
  /\ SoloCorredores
  /\ UNCHANGED <<nfallos, pcMainC, idxC, lock_corredores, pasoCor, posicion>>

\* correr: print "llegó en LUGAR #posicion", leave the block, the thread ends
correr_L45(c) ==
  /\ pcCor[c] = "L45"
  /\ lock_corredores' = IF lock_corredores = Corredor(c) THEN Nadie ELSE lock_corredores
  /\ pcCor' = [pcCor EXCEPT ![c] = "fin"]
  /\ SoloCorredores
  /\ UNCHANGED <<nfallos, sinGuarda, pcMainC, idxC, llegadas, pasoCor, posicion, enMeta>>

\* the print inside `with lock:` raises: the block is left through __exit__ and
\* the runner's thread ends
correr_L45_raise(c) ==
  /\ pcCor[c] = "L45"
  /\ PuedeFallar
  /\ nfallos' = nfallos + 1
  /\ lock_corredores' = LiberaAlFallar(lock_corredores)
  /\ pcCor' = [pcCor EXCEPT ![c] = "exc_L45"]
  /\ SoloCorredores
  /\ UNCHANGED <<sinGuarda, pcMainC, idxC, llegadas, pasoCor, posicion, enMeta>>

correr(c) ==
  \/ correr_L35(c)
  \/ correr_L36(c)
  \/ correr_L42(c)
  \/ correr_L43(c)
  \/ correr_L44(c)
  \/ correr_L45(c)
  \/ correr_L45_raise(c)

main_corredores ==
  \/ main_corredores_L70
  \/ main_corredores_L75
  \/ main_corredores_L80

InitC ==
  /\ pcMainC = IF programa = "corredores" THEN "L70" ELSE "inactivo"
  /\ idxC = 1
  /\ lock_corredores = Nadie
  /\ llegadas = <<>>
  /\ pcCor = [c \in CORREDORES |-> "nuevo"]
  /\ pasoCor = [c \in CORREDORES |-> 0]
  /\ posicion = [c \in CORREDORES |-> 0]
  /\ enMeta = <<>>

NextC ==
  \/ main_corredores
  \/ \E c \in CORREDORES : correr(c)

\* ---------------------------------- Calculo_intensivo_(Multiprocessing).py
NumProcesos == 3         \* for i in range(1, 4)
PROCESOS == 1..NumProcesos

SoloCalculo == UNCHANGED <<programa, nfallos, sinGuarda, varsD, varsH, varsC, varsS, varsA>>

\* for i in range(1, 4): p = multiprocessing.Process(...) ; p.start()
main_calculo_L12 ==
  /\ pcMainP = "L12"
  /\ IF idxP <= NumProcesos
       THEN /\ pcProc' = [pcProc EXCEPT ![idxP] = "L5"]
            /\ idxP' = idxP + 1
            /\ UNCHANGED pcMainP
       ELSE /\ pcMainP' = "L17"
            /\ idxP' = 1
            /\ UNCHANGED pcProc
  /\ SoloCalculo

\* for p in procesos: p.join()
main_calculo_L17 ==
  /\ pcMainP = "L17"
  /\ IF idxP <= NumProcesos
       THEN /\ pcProc[idxP] = "fin"
            /\ idxP' = idxP + 1
            /\ UNCHANGED pcMainP
       ELSE /\ pcMainP' = "L20"
            /\ UNCHANGED idxP
  /\ UNCHANGED pcProc
  /\ SoloCalculo

\* print "Todos los cálculos terminaron."
main_calculo_L20 ==
  /\ pcMainP = "L20"
  /\ pcMainP' = "fin"
  /\ UNCHANGED <<idxP, pcProc>>
  /\ SoloCalculo

\* calcular: one statement of the process, from line `de` to line `a`
PasoCalcular(i, de, a) ==
  /\ pcProc[i] = de
  /\ pcProc' = [pcProc EXCEPT ![i] = a]
  /\ UNCHANGED <<pcMainP, idxP>>
  /\ SoloCalculo

\* print "Calculando cuadrado" ; time.sleep(2) ; print "Resultado"
calcular_L5(i) == PasoCalcular(i, "L5", "L6")
calcular_L6(i) == PasoCalcular(i, "L6", "L7")
calcular_L7(i) == PasoCalcular(i, "L7", "fin")

calcular(i) == calcular_L5(i) \/ calcular_L6(i) \/ calcular_L7(i)

main_calculo == main_calculo_L12 \/ main_calculo_L17 \/ main_calculo_L20

InitP ==
  /\ pcMainP = IF programa = "calculo" THEN "L12" ELSE "inactivo"
  /\ idxP = 1
  /\ pcProc = [i \in PROCESOS |-> "nuevo"]

NextP ==
  \/ main_calculo
  \/ \E i \in PROCESOS : calcular(i)

\* ------------------------------ Simulador_descargas_Hilos_(threading).py
NumHilos == 3            \* archivos = ["archivo1.zip", "archivo2.mp4", "archivo3.pdf"]
HILOS == 1..NumHilos

SoloHilos == UNCHANGED <<programa, nfallos, sinGuarda, varsD, varsH, varsC, varsP, varsA>>

\* for archivo in archivos: hilo = threading.Thread(...) ; hilo.start()
main_hilos_L15 ==
  /\ pcMainS = "L15"
  /\ IF idxS <= NumHilos
       THEN /\ pcHilo' = [pcHilo EXCEPT ![idxS] = "L6"]
            /\ idxS' = idxS + 1
            /\ UNCHANGED pcMainS
       ELSE /\ pcMainS' = "L20"
            /\ idxS' = 1
            /\ UNCHANGED pcHilo
  /\ SoloHilos

\* for hilo in hilos: hilo.join()
main_hilos_L20 ==
  /\ pcMainS = "L20"
  /\ IF idxS <= NumHilos
       THEN /\ pcHilo[idxS] = "fin"
            /\ idxS' = idxS + 1
            /\ UNCHANGED pcMainS
       ELSE /\ pcMainS' = "L23"
            /\ UNCHANGED idxS
  /\ UNCHANGED pcHilo
  /\ SoloHilos

\* print "Todas las descargas finalizaron."
main_hilos_L23 ==
  /\ pcMainS = "L23"
  /\ pcMainS' = "fin"
  /\ UNCHANGED <<idxS, pcHilo>>
  /\ SoloHilos

\* descargar_archivo of this script: one statement, from line `de` to line `a`
PasoHilo(i, de, a) ==
  /\ pcHilo[i] = de
  /\ pcHilo' = [pcHilo EXCEPT ![i] = a]
  /\ UNCHANGED <<pcMainS, idxS>>
  /\ SoloHilos

\* print "Iniciando descarga" ; time.sleep(tiempo) ; print "Descarga completada"
descarga_simple_L6(i) == PasoHilo(i, "L6", "L8")
descarga_simple_L8(i) == PasoHilo(i, "L8", "L9")
descarga_simple_L9(i) == PasoHilo(i, "L9", "fin")

descarga_simple(i) ==
  descarga_simple_L6(i) \/ descarga_simple_L8(i) \/ descarga_simple_L9(i)

main_hilos == main_hilos_L15 \/ main_hilos_L20 \/ main_hilos_L23

InitS ==
  /\ pcMainS = IF programa = "hilos" THEN "L15" ELSE "inactivo"
  /\ idxS = 1
  /\ pcHilo = [i \in HILOS |-> "nuevo"]

NextS ==
  \/ main_hilos
  \/ \E i \in HILOS : descarga_simple(i)

\* -------------------------------------------- Simulador_API_(Asyncio).py
NumServicios == 3        \* the three coroutines handed to asyncio.gather
TiempoMin == 1           \* random.randint(1, 4)
TiempoMax == 4
SERVICIOS == 1..NumServicios

SoloApi == UNCHANGED <<programa, nfallos, sinGuarda, varsD, varsH, varsC, varsP, varsS>>

\* asyncio.run(main()): main runs up to `await asyncio.gather(...)`, which wraps
\* each coroutine in a task and schedules the tasks in the order given
main_api_L17 ==
  /\ pcMainA = "L17"
  /\ pcMainA' = "L11"
  /\ pcCoro' = [k \in SERVICIOS |-> "L5"]
  /\ UNCHANGED tiempo
  /\ SoloApi

\* the event loop runs the first step of a task, the tasks in the order they were
\* scheduled: print "Consultando API", tiempo = random.randint(1, 4), and the
\* coroutine suspends in await asyncio.sleep(tiempo)
consultar_api_L5(k) ==
  /\ pcCoro[k] = "L5"
  /\ \A j \in SERVICIOS : j < k => pcCoro[j] # "L5"
  /\ \E d \in TiempoMin..TiempoMax : tiempo' = [tiempo EXCEPT ![k] = d]
  /\ pcCoro' = [pcCoro EXCEPT ![k] = "L7"]
  /\ UNCHANGED pcMainA
  /\ SoloApi

\* the timer of the earliest deadline fires (either one of two equal deadlines),
\* after every task took its first step: the coroutine resumes, prints "Respuesta
\* recibida" and returns (tiempo is dead then)
consultar_api_L7(k) ==
  /\ pcCoro[k] = "L7"
  /\ \A j \in SERVICIOS : pcCoro[j] # "L5"
  /\ \A j \in SERVICIOS : pcCoro[j] = "L7" => tiempo[k] <= tiempo[j]
  /\ pcCoro' = [pcCoro EXCEPT ![k] = "fin"]
  /\ tiempo' = [tiempo EXCEPT ![k] = 0]
  /\ UNCHANGED pcMainA
  /\ SoloApi

\* gather's future is done when every task is: main returns, asyncio.run returns
main_api_L11 ==
  /\ pcMainA = "L11"
  /\ \A k \in SERVICIOS : pcCoro[k] = "fin"
  /\ pcMainA' = "fin"
  /\ UNCHANGED <<pcCoro, tiempo>>
  /\ SoloApi

consultar_api(k) == consultar_api_L5(k) \/ consultar_api_L7(k)

main_api == main_api_L17 \/ main_api_L11

InitA ==
  /\ pcMainA = IF programa = "api" THEN "L17" ELSE "inactivo"
  /\ pcCoro = [k \in SERVICIOS |-> "nueva"]
  /\ tiempo = [k \in SERVICIOS |-> 0]

NextA ==
  \/ main_api
  \/ \E k \in SERVICIOS : consultar_api(k)

\* ------------------------------------------------------ specifications
Programas == {"descargas", "hospital", "corredores", "calculo", "hilos", "api"}

Init ==
  /\ programa \in Programas
  /\ nfallos = 0
  /\ sinGuarda = {}
  /\ InitD
  /\ InitH
  /\ InitC
  /\ InitP
  /\ InitS
  /\ InitA

Next == NextD \/ NextH \/ NextC \/ NextP \/ NextS \/ NextA

Spec == Init /\ [][Next]_vars

\* the hospital alone, every thread scheduled fairly
InitHospital ==
  /\ programa = "hospital"
  /\ Init

SpecHospital == InitHospital /\ [][NextH]_vars

Equidad ==
  /\ WF_vars(main_hospital)
  /\ WF_vars(director)
  /\ \A m \in MEDICOS : WF_vars(atender_pacientes(m))

FairSpecHospital == SpecHospital /\ Equidad

InitDescargas ==
  /\ programa = "descargas"
  /\ Init

SpecDescargas == InitDescargas /\ [][NextD]_vars

\* the two programs whose workers loop over numbered steps: the shift and the race
InitHospitalCorredores ==
  /\ programa \in {"hospital", "corredores"}
  /\ Init

SpecHospitalCorredores == InitHospitalCorredores /\ [][NextH \/ NextC]_vars

\* every program, every thread, process and event loop scheduled fairly
EquidadTotal ==
  /\ Equidad
  /\ WF_vars(main_descargas)
  /\ \A t \in Tareas : WF_vars(tarea(t))
  /\ \A w \in Workers : WF_vars(worker(w))
  /\ WF_vars(main_corredores)
  /\ \A c \in CORREDORES : WF_vars(correr(c))
  /\ WF_vars(main_calculo)
  /\ \A i \in PROCESOS : WF_vars(calcular(i))
  /\ WF_vars(main_hilos)
  /\ \A i \in HILOS : WF_vars(descarga_simple(i))
  /\ WF_vars(NextA)

FairSpec == Spec /\ EquidadTotal

\* ------------------------------------------------------------- claims
\* main (or the mode it called) is about to call _mostrar_resumen
EnResumen == pcMain \in {"L143", "L185", "L220"}

\* the tasks of the mode whose update of the statistics is complete
PostStats == {"L97", "L99", "L105", "L164", "fin", "exc_despues"}
Actualizadas == {t \in Tareas : pc[t] \in PostStats}

\* the calls of descargar_archivo that have started and not yet returned or raised
EnVuelo ==
  {t \in Tareas : pc[t] \in {"L68", "L70", "L75", "L83", "L93", "L94r", "L94w", "L95r",
                              "L95w", "L97", "L99"}}

\* C1: in each mode, when no task failed, the list handed to _mostrar_resumen has
\* exactly one element per submitted task, whatever the interleaving
C1_ResultadosCompletos ==
  (EnResumen /\ fallado = {}) => Len(resultados) = NumArchivos

\* modo_threads reaches its summary with the thread started last finished first
C1_Witness ==
  /\ pcMain = "L185"
  /\ fallado = {}
  /\ Len(resultados) = NumArchivos
  /\ Head(resultados) = NumArchivos

\* C2: when a mode has joined its workers, the two counters are the sum of the
\* sizes and the number of the tasks that made their update (no update is lost),
\* and those are all the tasks of the mode when no call raised
C2_ContadoresSinPerdida ==
  EnResumen =>
    /\ estadisticas.total_mb = SumaTam(Actualizadas)
    /\ estadisticas.archivos_completados = Cardinality(Actualizadas)
    /\ fallado = {} => Actualizadas = Tareas

\* the pool reaches its summary with every task counted
C2_Witness ==
  /\ pcMain = "L220"
  /\ fallado = {}
  /\ estadisticas.total_mb = SumaTam(Tareas)
  /\ estadisticas.archivos_completados = NumArchivos

PreWait == {"nuevo", "L67", "L72"}

\* C3: while the gate is closed no doctor is past apertura_hospital.wait() and
\* registro is empty
C3_NadiePasaAntes ==
  ~apertura_hospital => (registro = <<>> /\ \A m \in MEDICOS : pcMed[m] \in PreWait)

\* every doctor blocked in wait(), the director about to call set()
C3_Witness ==
  /\ ~apertura_hospital
  /\ pcDir = "L54"
  /\ \A m \in MEDICOS : pcMed[m] = "L72"

\* C4: under fair scheduling every doctor eventually passes apertura_hospital.wait(),
\* whether it reached the wait before or after set()
C4_TodosPasan == <>(\A m \in MEDICOS : pcMed[m] \notin PreWait)

\* the gate is open, one doctor has passed and another has not reached wait() yet
C4_Witness ==
  /\ apertura_hospital
  /\ \E m \in MEDICOS : pcMed[m] = "L67"
  /\ \E m \in MEDICOS : pcMed[m] \notin PreWait

\* C5: the flag changes only from closed to open, by the director's set(), which
\* is the director's last statement and runs once; it is open at the summary
C5_UnaTransicion ==
  /\ [][/\ apertura_hospital' # apertura_hospital =>
             (~apertura_hospital /\ apertura_hospital' /\ pcDir = "L54" /\ pcDir' = "fin")
        /\ pcDir = "fin" => pcDir' = "fin"]_vars
  /\ [](pcMainH \in {"L131", "fin"} => apertura_hospital)

\* main prints the summary with the gate open and every patient attended
C5_Witness ==
  /\ pcMainH = "L131"
  /\ apertura_hospital
  /\ Len(registro) = NumMedicos * PACIENTES_POR_MEDICO

\* C6: in modo_pool at most max_workers calls of descargar_archivo are in flight
C6_EnVueloAcotado == modo = "pool" => Cardinality(EnVuelo) <= MaxWorkers

\* the pool is full while a submitted task waits in the queue
C6_Witness ==
  /\ modo = "pool"
  /\ Cardinality(EnVuelo) = MaxWorkers
  /\ cola # <<>>

\* the mutations the controlling thread makes without holding a lock
MutacionesDeMain ==
  {<<"estadisticas", "L133">>, <<"estadisticas", "L134">>, <<"resultados", "L140">>,
   <<"estadisticas", "L156">>, <<"estadisticas", "L157">>,
   <<"estadisticas", "L198">>, <<"estadisticas", "L199">>, <<"resultados", "L214">>}

\* C7 as stated: every mutation of estadisticas, resultados, llegadas and registro
\* is made by a thread holding the lock that guards it, the resets at the start of
\* a mode and the appends of modo_secuencial and modo_pool included
C7_Original == sinGuarda = {}

\* C7 as amended: every mutation made by a worker (the two updates of
\* descargar_archivo, the append of tarea, of correr and of atender_pacientes) is
\* made holding the guarding lock; only main's resets and main's appends are not
C7_SoloMainSinLock == sinGuarda \subseteq MutacionesDeMain

\* the program ends with main's unguarded append of modo_pool made
C7_Witness ==
  /\ pcMain = "fin"
  /\ <<"resultados", "L214">> \in sinGuarda
  /\ <<"estadisticas", "L199">> \in sinGuarda

ContadoresCoherentes ==
  /\ estadisticas.total_mb = SumaTam(Actualizadas)
  /\ estadisticas.archivos_completados = Cardinality(Actualizadas)

\* C8 as stated: in every state where stats_lock is free the two counters are the
\* sum of the sizes and the number of the tasks that finished their update
C8_Original == stats_lock = Nadie => ContadoresCoherentes

\* C8 as amended: the same, except in the state between the two reset statements
\* of modo_threads (156-157) and of modo_pool (198-199)
C8_CoherentesSalvoReset ==
  (stats_lock = Nadie /\ pcMain \notin {"L157", "L199"}) => ContadoresCoherentes

\* stats_lock is free, some tasks are counted, another is about to take the lock
C8_Witness ==
  /\ stats_lock = Nadie
  /\ modo = "threads"
  /\ Actualizadas # {}
  /\ \E t \in Tareas : pc[t] = "L93"
  /\ estadisticas.archivos_completados = Cardinality(Actualizadas)

\* C9: the final results are printed only when every worker started has ended
C9_JoinAntesDeResultados ==
  /\ pcMainC \in {"L80", "fin"} => \A c \in CORREDORES : pcCor[c] \in {"fin", "exc_L45"}
  /\ pcMainH \in {"L131", "fin"} =>
       (pcDir = "fin" /\ \A m \in MEDICOS : pcMed[m] \in {"fin", "exc_L85"})
  /\ pcMain = "L185" => \A t \in Tareas : pc[t] \in {"fin"} \cup Excepciones

\* modo_threads prints its summary after a thread that ended by an exception
C9_Witness ==
  /\ pcMain = "L185"
  /\ fallado # {}
  /\ \A t \in Tareas : pc[t] \in {"fin"} \cup Excepciones

\* lock l is held by the thread running a task that is inside the block `lineas`
EnBloque(l, lineas) == \E t \in Tareas : pc[t] \in lineas /\ Ejecutor(t) = l

\* C10: a lock that is held is held by a live thread inside the guarded block: a
\* block that is left, by its end or by an exception, has released its lock
C10_LockLiberado ==
  /\ print_lock # Nadie => EnBloque(print_lock, {"L70", "L83", "L99"})
  /\ stats_lock # Nadie => EnBloque(stats_lock, {"L94r", "L94w", "L95r", "L95w"})
  /\ resultados_lock # Nadie =>
       \E t \in Tareas : pc[t] = "L164" /\ resultados_lock = Hilo(t)
  /\ lock_hospital # Nadie =>
       \E m \in MEDICOS : pcMed[m] \in {"L84", "L85"} /\ lock_hospital = Medico(m)
  /\ lock_corredores # Nadie =>
       \E c \in CORREDORES : pcCor[c] \in {"L43", "L44", "L45"}
                              /\ lock_corredores = Corredor(c)

\* a thread of modo_threads ended by an exception raised inside `with print_lock:`
\* and another thread holds print_lock after it
C10_Witness ==
  /\ modo = "threads"
  /\ \E t \in Tareas : pc[t] = "exc_antes"
  /\ \E t \in Tareas : pc[t] = "L99" /\ print_lock = Hilo(t)

\* C11: in modo_pool a call that raised is caught at future.result(): the failed
\* tasks are absent from resultados, every other task runs to its return, the list
\* has N - k elements at the summary, and main is never stopped before the summary
C11_FallosAtrapados ==
  modo = "pool" =>
    /\ pcMain # "abortado"
    /\ \A t \in entregados : t \in Rango(resultados) <=> t \notin fallado
    /\ pcMain = "L220" =>
         /\ entregados = Tareas
         /\ Len(resultados) = NumArchivos - Cardinality(fallado)
         /\ \A t \in Tareas \ fallado : pc[t] = "L105"
    /\ pcMain \in {"L206", "L211", "L213", "L217", "L204", "L204w"} => ENABLED NextD

\* the pool reaches its summary after a call raised
C11_Witness ==
  /\ pcMain = "L220"
  /\ fallado # {}
  /\ Len(resultados) = NumArchivos - Cardinality(fallado)

\* C12 as stated: in each of the three modes a call that raises is caught for its
\* task alone: the mode is not stopped, and at its summary every other task has
\* run to its return
C12_Original ==
  /\ pcMain # "abortado"
  /\ EnResumen => \A t \in Tareas \ fallado : pc[t] \in {"L105", "fin"}

\* modo_secuencial stopped by the exception of its first call: the other tasks
\* were never started and no summary is printed
C12_Witness ==
  /\ pcMain = "abortado"
  /\ modo = "sec"
  /\ pc[1] \in Excepciones
  /\ \A t \in Tareas \ {1} : pc[t] = "nueva"
  /\ resultados = <<>>

\* s has no element twice
SinRepetidos(s) == \A i, j \in 1..Len(s) : i # j => s[i] # s[j]

\* no task is held by two pool threads, queued twice, or queued once started; no
\* task is twice in resultados; at a summary every task was started, and with no
\* failure each is in resultados
UnSoloEjecutor ==
  /\ \A v, w \in Workers : (v # w /\ wtarea[v] # 0) => wtarea[v] # wtarea[w]
  /\ SinRepetidos(cola)
  /\ \A t \in Rango(cola) : pc[t] = "nueva" /\ \A w \in Workers : wtarea[w] # t
  /\ SinRepetidos(resultados)
  /\ EnResumen => \A t \in Tareas : pc[t] # "nueva"
  /\ (EnResumen /\ fallado = {}) => Rango(resultados) = Tareas

\* a call of descargar_archivo starts only for a task not yet started, and a task
\* is new again only when main starts the next mode
UnSoloInicio ==
  \A t \in Tareas :
    /\ (pc'[t] = "L68" /\ pc[t] # "L68") => pc[t] = "nueva"
    /\ (pc'[t] = "nueva" /\ pc[t] # "nueva") => pcMain \in {"L134", "L157", "L199"}

\* C13: in each mode every task is started exactly once, by one worker, none is
\* skipped, and with no failure each is exactly once in resultados; no two pool
\* threads ever hold the same task
C13_UnaVezCadaTarea == []UnSoloEjecutor /\ [][UnSoloInicio]_vars

\* the pool's summary with every task once in resultados, not in submission order
C13_Witness ==
  /\ pcMain = "L220"
  /\ fallado = {}
  /\ Rango(resultados) = Tareas
  /\ Len(resultados) = NumArchivos
  /\ Head(resultados) # 1

\* C14 as stated: the log order is the order in which the workers finished their
\* simulated work: whoever is about to append (tarea at line 164, main at line 214
\* for the future it was handed, correr at line 44) is the worker that finished
\* first among those not yet in the log
C14_Original ==
  /\ \A t \in Tareas : pc[t] = "L164" => Head(retornados) = t
  /\ (modo = "pool" /\ pcMain = "L213" /\ futActual \notin fallado) =>
       Head(retornados) = futActual
  /\ \A c \in CORREDORES : pcCor[c] = "L44" => Head(enMeta) = c

\* C14 as amended: an entry is appended only after its worker finished its
\* simulated work, and the log holds finished workers only, in the order in which
\* they entered the block that appends (or were handed to main by as_completed),
\* which need not be the order in which they finished
C14_RegistradoTrasTerminar ==
  /\ \A t \in Tareas : pc[t] = "L164" => t \in Rango(retornados)
  /\ (modo = "pool" /\ pcMain = "L213" /\ futActual \notin fallado) =>
       futActual \in Rango(retornados)
  /\ \A c \in CORREDORES : pcCor[c] \in {"L43", "L44"} => c \in Rango(enMeta)
  /\ \A t \in Rango(resultados) : pc[t] \in {"L105", "fin"} /\ t \notin Rango(retornados)
  /\ \A c \in Rango(llegadas) :
       pcCor[c] \in {"L45", "fin", "exc_L45"} /\ c \notin Rango(enMeta)

\* a thread of modo_threads is about to append its result while a thread that
\* returned from descargar_archivo before it still waits for resultados_lock
C14_Witness ==
  /\ modo = "threads"
  /\ Len(retornados) >= 2
  /\ pc[retornados[2]] = "L164"
  /\ pc[retornados[1]] = "L105"

\* the threads that are at a print statement: descargar_archivo's three prints and
\* main's print of line 217; the prints of director and atender_pacientes; the
\* two prints of correr
ImprimiendoD ==
  {Ejecutor(t) : t \in {u \in Tareas : pc[u] \in {"L70", "L83", "L99"}}}
    \cup (IF pcMain = "L217" THEN {Main} ELSE {})
ImprimiendoH ==
  {Medico(m) : m \in {n \in MEDICOS : pcMed[n] \in {"L67", "L75", "L85", "L89"}}}
    \cup (IF pcDir \in {"L48", "L51"} THEN {Director} ELSE {})
ImprimiendoC == {Corredor(c) : c \in {d \in CORREDORES : pcCor[d] \in {"L36", "L45"}}}

\* C15 as stated: in no reachable state of the three programs are two threads
\* executing a print at the same time
C15_Original == Cardinality(ImprimiendoD \cup ImprimiendoH \cup ImprimiendoC) <= 1

\* two runners are in the print of line 36 at the same time
C15_Witness ==
  \E c, d \in CORREDORES : c # d /\ pcCor[c] = "L36" /\ pcCor[d] = "L36"

\* C16: no two runners get the same position: the position a runner computed is
\* its 1-based index in llegadas, and when main prints the results llegadas has
\* every runner once and the positions are 1..N, each once
C16_PosicionesUnicas ==
  /\ SinRepetidos(llegadas)
  /\ \A c \in CORREDORES : pcCor[c] = "L44" => posicion[c] = Len(llegadas) + 1
  /\ \A c \in CORREDORES :
       pcCor[c] \in {"L45", "fin", "exc_L45"} =>
         (posicion[c] \in 1..Len(llegadas) /\ llegadas[posicion[c]] = c)
  /\ pcMainC \in {"L80", "fin"} =>
       /\ Len(llegadas) = NumCorredores
       /\ Rango(llegadas) = CORREDORES
       /\ {posicion[c] : c \in CORREDORES} = 1..NumCorredores

\* main prints the results of a race won by the runner that was started last
C16_Witness ==
  /\ pcMainC = "L80"
  /\ Len(llegadas) = NumCorredores
  /\ llegadas[1] = NumCorredores
  /\ posicion[NumCorredores] = 1

\* the controlling routine of the program that runs is at its end
ProgramaTerminado ==
  \/ pcMain \in {"fin", "abortado"}
  \/ pcMainH = "fin"
  \/ pcMainC = "fin"
  \/ pcMainP = "fin"
  \/ pcMainS = "fin"
  \/ pcMainA = "fin"

\* the controlling routine made its final output and every worker ran to its end
TodoTerminado ==
  \/ /\ pcMain = "fin"
     /\ \A t \in Tareas : pc[t] = "L105"
     /\ \A w \in Workers : westado[w] # "vivo"
  \/ pcMainH = "fin" /\ pcDir = "fin" /\ \A m \in MEDICOS : pcMed[m] = "fin"
  \/ pcMainC = "fin" /\ \A c \in CORREDORES : pcCor[c] = "fin"
  \/ pcMainP = "fin" /\ \A i \in PROCESOS : pcProc[i] = "fin"
  \/ pcMainS = "fin" /\ \A i \in HILOS : pcHilo[i] = "fin"
  \/ pcMainA = "fin" /\ \A k \in SERVICIOS : pcCoro[k] = "fin"

\* at the summary of a mode in which no print raised, every task of the mode ran
\* to its end, and after the pool's `with` every pool thread has ended
ModoCompleto ==
  (EnResumen /\ nfallos = 0) =>
    /\ \A t \in Tareas : pc[t] \in {"L105", "fin"}
    /\ pcMain = "L220" => \A w \in Workers : westado[w] # "vivo"

\* C17: no reachable state is a deadlock, every mode of the download simulator
\* ends with all its workers done, and under fair scheduling every run in which
\* no print raises reaches the final output with every worker run to completion
C17_TodoTermina ==
  /\ [](ProgramaTerminado \/ ENABLED Next)
  /\ []ModoCompleto
  /\ <>(nfallos > 0 \/ TodoTerminado)

\* the download simulator after mostrar_comparacion, no print having raised in
\* its last mode
C17_Witness ==
  /\ programa = "descargas"
  /\ pcMain = "fin"
  /\ nfallos = 0
  /\ TodoTerminado

\* a step in which doctor m completes the print of lines 85-86
ImprimeTotal(m) == pcMed[m] = "L85" /\ pcMed'[m] \in {"L79", "L89"}

\* C18: the running total printed inside the critical section goes 1, 2, 3, ...,
\* each print one more than the print before, and when no print raised the total
\* of the summary is len(MEDICOS) * PACIENTES_POR_MEDICO, the last total printed
C18_TotalesEnOrden ==
  /\ [][\A m \in MEDICOS :
          (ImprimeTotal(m) /\ nfallos = 0) => totalImpreso' = totalImpreso + 1]_vars
  /\ []((pcMainH \in {"L131", "fin"} /\ nfallos = 0) =>
          /\ Len(registro) = NumMedicos * PACIENTES_POR_MEDICO
          /\ totalImpreso = Len(registro))

\* the summary of a shift in which the doctors' consultations interleaved
C18_Witness ==
  /\ pcMainH = "L131"
  /\ nfallos = 0
  /\ totalImpreso = NumMedicos * PACIENTES_POR_MEDICO
  /\ registro[1][1] # registro[2][1]

\* the entries of doctor m in registro, in the order they were appended
DelMedico(m) == SelectSeq(registro, LAMBDA e : e[1] = m)

\* every doctor's entries are its patients 1, 2, 3, ... in that order, and only
\* runners past the loop are in llegadas
PasosEnOrden ==
  /\ \A m \in MEDICOS : \A i \in 1..Len(DelMedico(m)) : DelMedico(m)[i] = <<m, i>>
  /\ \A c \in Rango(llegadas) : pcCor[c] \in {"L45", "fin", "exc_L45"}
  /\ \A c \in CORREDORES : pcCor[c] \in {"L35", "L36"} => pasoCor[c] \in 1..DISTANCIA

\* a runner's paso starts at 1 and goes up by one, and the runner leaves the loop
\* for the critical section only from the print of step DISTANCIA
PasoSiguiente ==
  \A c \in CORREDORES :
    /\ pasoCor'[c] # pasoCor[c] =>
         \/ pcCor[c] = "nuevo" /\ pasoCor'[c] = 1
         \/ pcCor[c] = "L36" /\ pasoCor'[c] = pasoCor[c] + 1
         \/ pcCor[c] = "L36" /\ pasoCor[c] = DISTANCIA /\ pcCor'[c] = "L42"
    /\ (pcCor'[c] = "L42" /\ pcCor[c] # "L42") =>
         (pcCor[c] = "L36" /\ pasoCor[c] = DISTANCIA)

\* C19: each worker takes its own steps in order whatever the others do: a
\* doctor's patients appear in registro in the order 1, 2, 3, and a runner takes
\* the steps 1 to DISTANCIA in order before it is appended to llegadas
C19_PasosPropiosEnOrden == []PasosEnOrden /\ [][PasoSiguiente]_vars

\* the second doctor attended two patients around the first patient of the first
C19_Witness ==
  /\ Len(registro) >= 3
  /\ registro[1] = <<2, 1>>
  /\ registro[2] = <<1, 1>>
  /\ registro[3] = <<2, 2>>

\* the tasks whose thread is about to request a lock: print_lock (lines 68, 81,
\* 97), stats_lock (line 93), resultados_lock (line 163)
PidiendoLock ==
  {t \in Tareas : \/ pc[t] \in {"L68", "L75", "L93", "L97"}
                  \/ pc[t] = "L105" /\ modo = "threads"}

\* C20: no thread holds two of print_lock, stats_lock and resultados_lock at the
\* same time, and a thread that requests a lock holds none, so no cycle of threads
\* waiting for each other's locks can form
C20_UnLockALaVez ==
  /\ print_lock # Nadie => (stats_lock # print_lock /\ resultados_lock # print_lock)
  /\ stats_lock # Nadie => resultados_lock # stats_lock
  /\ \A t \in PidiendoLock :
       Ejecutor(t) \notin {print_lock, stats_lock, resultados_lock}

\* three threads of modo_threads hold one lock each
C20_Witness ==
  /\ modo = "threads"
  /\ print_lock # Nadie
  /\ stats_lock # Nadie
  /\ resultados_lock # Nadie

\* the threads of modo_threads that were started and have not ended
HilosCorriendo ==
  {t \in Tareas : modo = "threads" /\ pc[t] \notin {"nueva", "fin"} \cup Excepciones}

\* the pool threads that were created and have not ended
WorkersCorriendo == {w \in Workers : westado[w] = "vivo"}

\* main is at one of the two reset statements that open a mode
EnReset == pcMain \in {"L133", "L134", "L156", "L157", "L198", "L199"}

\* C21: the unguarded accesses of main race with nothing: at the resets that open
\* a mode no thread of modo_threads and no pool thread is running, no call is in
\* flight and no lock is held; while main appends to resultados itself (lines
\* 140, 214) no thread is at the append of tarea; and the modes do not overlap:
\* threads of modo_threads run only between its start loop and its joins, pool
\* threads only inside the with block of modo_pool, and a call in flight belongs
\* to the mode main is in
C21_SinCarreras ==
  /\ EnReset =>
       /\ HilosCorriendo = {}
       /\ WorkersCorriendo = {}
       /\ EnVuelo = {}
       /\ print_lock = Nadie /\ stats_lock = Nadie /\ resultados_lock = Nadie
  /\ pcMain \in {"L139", "L213"} =>
       /\ modo # "threads"
       /\ \A t \in Tareas : pc[t] # "L164"
       /\ resultados_lock = Nadie
  /\ HilosCorriendo # {} => pcMain \in {"L170", "L181"}
  /\ (\E t \in Tareas : pc[t] = "L164") => HilosCorriendo # {}
  /\ WorkersCorriendo # {} =>
       (modo = "pool" /\ pcMain \in {"L206", "L211", "L213", "L217", "L204", "L204w"})
  /\ \A t \in EnVuelo :
       \/ modo = "sec" /\ pcMain = "L139" /\ t = idx
       \/ modo = "threads" /\ t \in HilosCorriendo
       \/ modo = "pool" /\ \E w \in WorkersCorriendo : wtarea[w] = t

\* main has reset total_mb for modo_pool without a lock, after modo_threads ran
\* every task in a thread of its own, the last task logged first
C21_Witness ==
  /\ pcMain = "L199"
  /\ modo = "pool"
  /\ <<"estadisticas", "L198">> \in sinGuarda
  /\ \A t \in Tareas : pc[t] = "fin"
  /\ Len(resultados) = NumArchivos
  /\ Head(resultados) = NumArchivos

\* C22: at each call of _mostrar_resumen with no call having raised, the sum of
\* the sizes in resultados (what _mostrar_resumen computes at line 228) is
\* estadisticas["total_mb"] and len(resultados) is
\* estadisticas["archivos_completados"]; both are the totals of this mode alone
C22_TalliesDeAcuerdo ==
  (EnResumen /\ fallado = {}) =>
    /\ SumaSeq(resultados) = estadisticas.total_mb
    /\ Len(resultados) = estadisticas.archivos_completados
    /\ estadisticas.total_mb = SumaSeq([t \in Tareas |-> t])
    /\ estadisticas.archivos_completados = NumArchivos

\* the pool, third mode to run, reaches its summary with the first task logged
\* last and the two tallies equal
C22_Witness ==
  /\ pcMain = "L220"
  /\ modo = "pool"
  /\ fallado = {}
  /\ resultados[Len(resultados)] = 1
  /\ SumaSeq(resultados) = estadisticas.total_mb
  /\ Len(resultados) = estadisticas.archivos_completados
  /\ estadisticas.total_mb > 0

====
